---- MODULE Spec2Model ----
(***************************************************************************)
(* Roman numeral converter: the GET /romannumeral handler of the backend   *)
(* server (query validation, parseInt, the romanMap table and the greedy   *)
(* toRoman routine).  Strings are sequences of one-character strings.      *)
(***************************************************************************)
EXTENDS Integers, Sequences, FiniteSets, TLC

VARIABLES
    pc,       \* "idle" | "received" | "responded" (handler)  /  "call" | "returned" (toRoman alone)
    query,    \* req.query.query: [defined |-> BOOLEAN, text |-> string]
    status,   \* HTTP status code of the response (0: none yet)
    body,     \* JSON body of the response
    called,   \* arguments toRoman was invoked with while serving the request
    responses,\* number of responses sent for the request being served
    arg,      \* argument of a direct call of toRoman
    ret,      \* value returned by that call
    frames,   \* the activations of toRoman run step by step, one per slot:
              \* its romanMap, num, result, position in the table and the
              \* table entries appended so far
    reqs,     \* the requests being served side by side
    srv,      \* the Express application: the request in flight and its way
              \* through the middleware stack
    metrics,  \* the prom-client counters http_requests_total and
              \* http_errors_total
    app,      \* the front end's component state: number, roman, loading, error
    inflight  \* the front end's fetch requests not yet settled

vars == <<pc, query, status, body, called, responses, arg, ret, frames, reqs,
          srv, metrics, app, inflight>>

----------------------------------------------------------------------------
(* Bounds of the model *)

\* longest query text enumerated
MaxQueryLen == 4

\* largest integer handed directly to toRoman
MaxInput == 4000

----------------------------------------------------------------------------
(* Program constants *)

\* lower and upper limit of the range check in the handler
MinNum == 1
MaxNum == 3999

Digits == <<"0", "1", "2", "3", "4", "5", "6", "7", "8", "9">>

IsDigit(c) == \E d \in 1..Len(Digits) : Digits[d] = c

DigitValue(c) == (CHOOSE d \in 1..Len(Digits) : Digits[d] = c) - 1

\* StrWhiteSpaceChar, as far as a decoded query string is concerned
IsWhiteSpace(c) == c \in {" ", "\t", "\n", "\r"}

\* characters query texts are built from
QueryChars == {"0", "1", "2", "3", "4", "9", "a", ".", " ", "-"}

----------------------------------------------------------------------------
(* romanMap, and faulty variants of it                          *)

\* romanMap with the numeral of 4 mistyped as 'VI'
romanMap_swappedIV ==
    << [value |-> 1000, numeral |-> <<"M">>],
       [value |-> 900,  numeral |-> <<"C", "M">>],
       [value |-> 500,  numeral |-> <<"D">>],
       [value |-> 400,  numeral |-> <<"C", "D">>],
       [value |-> 100,  numeral |-> <<"C">>],
       [value |-> 90,   numeral |-> <<"X", "C">>],
       [value |-> 50,   numeral |-> <<"L">>],
       [value |-> 40,   numeral |-> <<"X", "L">>],
       [value |-> 10,   numeral |-> <<"X">>],
       [value |-> 9,    numeral |-> <<"I", "X">>],
       [value |-> 5,    numeral |-> <<"V">>],
       [value |-> 4,    numeral |-> <<"V", "I">>],
       [value |-> 1,    numeral |-> <<"I">>] >>

\* romanMap with the numeral of 50 typed in lower case
romanMap_lowercaseL ==
    << [value |-> 1000, numeral |-> <<"M">>],
       [value |-> 900,  numeral |-> <<"C", "M">>],
       [value |-> 500,  numeral |-> <<"D">>],
       [value |-> 400,  numeral |-> <<"C", "D">>],
       [value |-> 100,  numeral |-> <<"C">>],
       [value |-> 90,   numeral |-> <<"X", "C">>],
       [value |-> 50,   numeral |-> <<"l">>],
       [value |-> 40,   numeral |-> <<"X", "L">>],
       [value |-> 10,   numeral |-> <<"X">>],
       [value |-> 9,    numeral |-> <<"I", "X">>],
       [value |-> 5,    numeral |-> <<"V">>],
       [value |-> 4,    numeral |-> <<"I", "V">>],
       [value |-> 1,    numeral |-> <<"I">>] >>

\* romanMap with a closing entry for zero
romanMap_withZero ==
    << [value |-> 1000, numeral |-> <<"M">>],
       [value |-> 900,  numeral |-> <<"C", "M">>],
       [value |-> 500,  numeral |-> <<"D">>],
       [value |-> 400,  numeral |-> <<"C", "D">>],
       [value |-> 100,  numeral |-> <<"C">>],
       [value |-> 90,   numeral |-> <<"X", "C">>],
       [value |-> 50,   numeral |-> <<"L">>],
       [value |-> 40,   numeral |-> <<"X", "L">>],
       [value |-> 10,   numeral |-> <<"X">>],
       [value |-> 9,    numeral |-> <<"I", "X">>],
       [value |-> 5,    numeral |-> <<"V">>],
       [value |-> 4,    numeral |-> <<"I", "V">>],
       [value |-> 1,    numeral |-> <<"I">>],
       [value |-> 0,    numeral |-> <<>>] >>

\* romanMap without the subtractive pairs
romanMap_additive ==
    << [value |-> 1000, numeral |-> <<"M">>],
       [value |-> 500,  numeral |-> <<"D">>],
       [value |-> 100,  numeral |-> <<"C">>],
       [value |-> 50,   numeral |-> <<"L">>],
       [value |-> 10,   numeral |-> <<"X">>],
       [value |-> 5,    numeral |-> <<"V">>],
       [value |-> 1,    numeral |-> <<"I">>] >>

romanMap ==
    << [value |-> 1000, numeral |-> <<"M">>],
       [value |-> 900,  numeral |-> <<"C", "M">>],
       [value |-> 500,  numeral |-> <<"D">>],
       [value |-> 400,  numeral |-> <<"C", "D">>],
       [value |-> 100,  numeral |-> <<"C">>],
       [value |-> 90,   numeral |-> <<"X", "C">>],
       [value |-> 50,   numeral |-> <<"L">>],
       [value |-> 40,   numeral |-> <<"X", "L">>],
       [value |-> 10,   numeral |-> <<"X">>],
       [value |-> 9,    numeral |-> <<"I", "X">>],
       [value |-> 5,    numeral |-> <<"V">>],
       [value |-> 4,    numeral |-> <<"I", "V">>],
       [value |-> 1,    numeral |-> <<"I">>] >>

----------------------------------------------------------------------------
(* toRoman: for each entry of romanMap, while num >= value append numeral  *)

RECURSIVE toRomanFrom(_, _, _)
toRomanFrom(i, num, result) ==
    IF i > Len(romanMap) THEN result
    ELSE IF num >= romanMap[i].value
         THEN toRomanFrom(i, num - romanMap[i].value, result \o romanMap[i].numeral)
         ELSE toRomanFrom(i + 1, num, result)

\* the loop with 'num > value' in place of 'num >= value'
RECURSIVE toRomanFrom_gt(_, _, _)
toRomanFrom_gt(i, num, result) ==
    IF i > Len(romanMap) THEN result
    ELSE IF num > romanMap[i].value
         THEN toRomanFrom_gt(i, num - romanMap[i].value, result \o romanMap[i].numeral)
         ELSE toRomanFrom_gt(i + 1, num, result)

toRoman_gt(num) == toRomanFrom_gt(1, num, <<>>)

\* a toRoman that writes zero as 'N' (nulla)
toRoman_nulla(num) == IF num = 0 THEN <<"N">> ELSE toRomanFrom(1, num, <<>>)

toRoman(num) == toRomanFrom(1, num, <<>>)

----------------------------------------------------------------------------
(* parseInt(query, 10): skip leading white space, take an optional sign,   *)
(* then the longest prefix of decimal digits; NaN when that prefix is      *)
(* empty.  A number is [nan |-> BOOLEAN, value |-> Int].                   *)

NaN == [nan |-> TRUE, value |-> 0]

Number(v) == [nan |-> FALSE, value |-> v]

isNaN(num) == num.nan

RECURSIVE TrimStart(_)
TrimStart(s) ==
    IF s # <<>> /\ IsWhiteSpace(Head(s)) THEN TrimStart(Tail(s)) ELSE s

RECURSIVE DigitPrefix(_)
DigitPrefix(s) ==
    IF s # <<>> /\ IsDigit(Head(s)) THEN <<Head(s)>> \o DigitPrefix(Tail(s)) ELSE <<>>

RECURSIVE MathInt(_, _)
MathInt(z, acc) ==
    IF z = <<>> THEN acc ELSE MathInt(Tail(z), 10 * acc + DigitValue(Head(z)))

parseInt(s) ==
    LET S    == TrimStart(s)
        sign == IF S # <<>> /\ Head(S) = "-" THEN -1 ELSE 1
        rest == IF S # <<>> /\ Head(S) \in {"+", "-"} THEN Tail(S) ELSE S
        Z    == DigitPrefix(rest)
    IN  IF Z = <<>> THEN NaN ELSE Number(sign * MathInt(Z, 0))

----------------------------------------------------------------------------
(* The GET /romannumeral handler: the response it sends for a query and    *)
(* the arguments it invokes toRoman with.                                  *)

NoBody == [none |-> TRUE]

\* the application and the counters where they are not modelled
NoServer == [pc |-> "off"]

NoMetrics == [requests |-> <<>>, errors |-> <<>>]

\* the front end where it is not modelled
NoApp == [pc |-> "off"]

ErrorBody(msg) == [error |-> msg]

Reply(st, b, c) == [status |-> st, body |-> b, called |-> c]

\* the handler with the range check written 'num < 0 || num > 4000'
romannumeral_offByOne(q) ==
    IF ~q.defined \/ q.text = <<>>
    THEN Reply(400, ErrorBody("Query parameter is required"), <<>>)
    ELSE LET num == parseInt(q.text) IN
         IF isNaN(num)
         THEN Reply(400, ErrorBody("Invalid number format"), <<>>)
         ELSE IF num.value < MinNum - 1 \/ num.value > MaxNum + 1
         THEN Reply(400, ErrorBody("Number must be between 1 and 3999"), <<>>)
         ELSE Reply(200, [input |-> q.text, output |-> toRoman(num.value)],
                    <<num.value>>)

\* the handler without the isNaN check: every comparison with NaN is false,
\* so NaN passes the range check and toRoman(NaN) appends nothing
romannumeral_noNaNCheck(q) ==
    IF ~q.defined \/ q.text = <<>>
    THEN Reply(400, ErrorBody("Query parameter is required"), <<>>)
    ELSE LET num == parseInt(q.text) IN
         IF isNaN(num)
         THEN Reply(200, [input |-> q.text, output |-> <<>>], <<num>>)
         ELSE IF num.value < MinNum \/ num.value > MaxNum
         THEN Reply(400, ErrorBody("Number must be between 1 and 3999"), <<>>)
         ELSE Reply(200, [input |-> q.text, output |-> toRoman(num.value)],
                    <<num.value>>)

\* decimal text of a non-negative integer, as JSON renders a number
RECURSIVE ToDecimal(_)
ToDecimal(n) ==
    IF n < 10 THEN <<Digits[n + 1]>> ELSE ToDecimal(n \div 10) \o <<Digits[(n % 10) + 1]>>

\* the handler answering with the parsed number in place of the query text
romannumeral_inputNum(q) ==
    IF ~q.defined \/ q.text = <<>>
    THEN Reply(400, ErrorBody("Query parameter is required"), <<>>)
    ELSE LET num == parseInt(q.text) IN
         IF isNaN(num)
         THEN Reply(400, ErrorBody("Invalid number format"), <<>>)
         ELSE IF num.value < MinNum \/ num.value > MaxNum
         THEN Reply(400, ErrorBody("Number must be between 1 and 3999"), <<>>)
         ELSE Reply(200, [input |-> ToDecimal(num.value), output |-> toRoman(num.value)],
                    <<num.value>>)

\* the handler parsing the query before it checks that the query is there
romannumeral_parseFirst(q) ==
    LET num == IF q.defined THEN parseInt(q.text) ELSE NaN IN
    IF isNaN(num)
    THEN Reply(400, ErrorBody("Invalid number format"), <<>>)
    ELSE IF ~q.defined \/ q.text = <<>>
    THEN Reply(400, ErrorBody("Query parameter is required"), <<>>)
    ELSE IF num.value < MinNum \/ num.value > MaxNum
    THEN Reply(400, ErrorBody("Number must be between 1 and 3999"), <<>>)
    ELSE Reply(200, [input |-> q.text, output |-> toRoman(num.value)],
               <<num.value>>)

\* a toRoman with a range check of its own that throws one value too early
toRomanThrows_offByOne(num) == num < MinNum \/ num >= MaxNum

\* whether toRoman(num) throws: its body has no throw statement and only
\* compares, subtracts and concatenates
toRomanThrows(num) == FALSE

romannumeral(q) ==
    IF ~q.defined \/ q.text = <<>>
    THEN Reply(400, ErrorBody("Query parameter is required"), <<>>)
    ELSE LET num == parseInt(q.text) IN
         IF isNaN(num)
         THEN Reply(400, ErrorBody("Invalid number format"), <<>>)
         ELSE IF num.value < MinNum \/ num.value > MaxNum
         THEN Reply(400, ErrorBody("Number must be between 1 and 3999"), <<>>)
         ELSE IF toRomanThrows(num.value)
         THEN Reply(500, ErrorBody("Internal server error during conversion"),
                    <<num.value>>)
         ELSE Reply(200, [input |-> q.text, output |-> toRoman(num.value)],
                    <<num.value>>)

----------------------------------------------------------------------------
(* The service: requests arrive and the handler answers each of them       *)

RECURSIVE Texts(_)
Texts(n) ==
    IF n = 0 THEN {<<>>}
    ELSE LET shorter == Texts(n - 1)
         IN  shorter \cup {t \o <<c>> : t \in shorter, c \in QueryChars}

Queries ==
    {[defined |-> FALSE, text |-> <<>>]}
        \cup {[defined |-> TRUE, text |-> t] : t \in Texts(MaxQueryLen)}

Init ==
    /\ pc = "idle"
    /\ query = [defined |-> FALSE, text |-> <<>>]
    /\ status = 0
    /\ body = NoBody
    /\ called = <<>>
    /\ responses = 0
    /\ arg = 0
    /\ ret = <<>>
    /\ frames = <<>>
    /\ reqs = <<>>
    /\ srv = NoServer
    /\ metrics = NoMetrics
    /\ app = NoApp
    /\ inflight = <<>>

\* a GET /romannumeral request arrives
Receive ==
    /\ pc = "idle"
    /\ \E q \in Queries : query' = q
    /\ pc' = "received"
    /\ UNCHANGED <<app, inflight, srv, metrics, status, body, called, responses, arg, ret, frames, reqs>>

\* the handler runs to its return
Handle ==
    /\ pc = "received"
    /\ LET r == romannumeral(query) IN
         /\ status' = r.status
         /\ body' = r.body
         /\ called' = r.called
    /\ responses' = responses + 1
    /\ pc' = "responded"
    /\ UNCHANGED <<app, inflight, srv, metrics, query, arg, ret, frames, reqs>>

\* the response has been sent; the server waits for the next request
Finish ==
    /\ pc = "responded"
    /\ pc' = "idle"
    /\ query' = [defined |-> FALSE, text |-> <<>>]
    /\ status' = 0
    /\ body' = NoBody
    /\ called' = <<>>
    /\ responses' = 0
    /\ UNCHANGED <<app, inflight, srv, metrics, arg, ret, frames, reqs>>

Next == Receive \/ Handle \/ Finish

Spec == Init /\ [][Next]_vars

----------------------------------------------------------------------------
(* toRoman on its own, invoked without the handler's checks                *)

\* most negative integer handed directly to toRoman is -MaxNegative
MaxNegative == 1

InitToRoman ==
    /\ pc = "call"
    /\ arg \in (-MaxNegative)..MaxInput
    /\ ret = <<>>
    /\ query = [defined |-> FALSE, text |-> <<>>]
    /\ status = 0
    /\ body = NoBody
    /\ called = <<>>
    /\ responses = 0
    /\ frames = <<>>
    /\ reqs = <<>>
    /\ srv = NoServer
    /\ metrics = NoMetrics
    /\ app = NoApp
    /\ inflight = <<>>

CallToRoman ==
    /\ pc = "call"
    /\ ret' = toRoman(arg)
    /\ pc' = "returned"
    /\ UNCHANGED <<app, inflight, srv, metrics, query, status, body, called, responses, arg, frames, reqs>>

NextToRoman == CallToRoman

SpecToRoman == InitToRoman /\ [][NextToRoman]_vars

----------------------------------------------------------------------------
(* toRoman step by step: one activation, with its own romanMap, num and    *)
(* result, advanced one loop iteration at a time                           *)

NoFrame ==
    [pc |-> "none", romanMap |-> <<>>, arg |-> 0, num |-> 0, result |-> <<>>,
     i |-> 0, appended |-> <<>>]

\* entry of toRoman(n): result = '', the for loop stands at the first entry
EnterToRoman(n) ==
    [pc |-> "loop", romanMap |-> romanMap, arg |-> n, num |-> n,
     result |-> <<>>, i |-> 1, appended |-> <<>>]

\* the for loop has walked the whole table
AtEnd(f) == f.i > Len(f.romanMap)

\* the while condition with '>' in place of '>='
WhileCond_gt(f) == f.num > f.romanMap[f.i].value

\* while (num >= value)
WhileCond(f) == f.num >= f.romanMap[f.i].value

\* result += numeral; num -= value
AppendStep(f) ==
    [f EXCEPT !.result = @ \o f.romanMap[f.i].numeral,
              !.num = @ - f.romanMap[f.i].value,
              !.appended = Append(@, f.i)]

\* a for loop that consumes the table with romanMap.shift()
NextEntryStep_shift(f) == [f EXCEPT !.romanMap = Tail(@)]

\* the for loop moves to the next entry
NextEntryStep(f) == [f EXCEPT !.i = @ + 1]

\* return result
ReturnStep(f) == [f EXCEPT !.pc = "returned"]

InitLoop ==
    /\ pc = "call"
    /\ arg \in (-MaxNegative)..MaxInput
    /\ ret = <<>>
    /\ frames = <<EnterToRoman(arg)>>
    /\ query = [defined |-> FALSE, text |-> <<>>]
    /\ status = 0
    /\ body = NoBody
    /\ called = <<>>
    /\ responses = 0
    /\ reqs = <<>>
    /\ srv = NoServer
    /\ metrics = NoMetrics
    /\ app = NoApp
    /\ inflight = <<>>

LoopRunning == pc = "call" /\ frames[1].pc = "loop"

\* one iteration of the while loop
LoopAppend ==
    /\ LoopRunning
    /\ ~AtEnd(frames[1])
    /\ WhileCond(frames[1])
    /\ frames' = [frames EXCEPT ![1] = AppendStep(frames[1])]
    /\ UNCHANGED <<app, inflight, srv, metrics, pc, query, status, body, called, responses, arg, ret, reqs>>

\* the while condition fails: on to the next table entry
LoopNextEntry ==
    /\ LoopRunning
    /\ ~AtEnd(frames[1])
    /\ ~WhileCond(frames[1])
    /\ frames' = [frames EXCEPT ![1] = NextEntryStep(frames[1])]
    /\ UNCHANGED <<app, inflight, srv, metrics, pc, query, status, body, called, responses, arg, ret, reqs>>

\* the table is exhausted: toRoman returns result
LoopReturn ==
    /\ LoopRunning
    /\ AtEnd(frames[1])
    /\ frames' = [frames EXCEPT ![1] = ReturnStep(frames[1])]
    /\ ret' = frames[1].result
    /\ pc' = "returned"
    /\ UNCHANGED <<app, inflight, srv, metrics, query, status, body, called, responses, arg, reqs>>

NextLoop == LoopAppend \/ LoopNextEntry \/ LoopReturn

SpecLoop == InitLoop /\ [][NextLoop]_vars

\* toRoman is synchronous code: once called it keeps running
SpecLoopFair == SpecLoop /\ WF_vars(NextLoop)

----------------------------------------------------------------------------
(* Several requests served side by side.  Node runs each handler to its    *)
(* return before the next one starts; here the conversions are interleaved *)
(* iteration by iteration, which includes that schedule and every other.   *)

\* number of requests served side by side
NumRequests == 2

Requests == 1..NumRequests

\* query texts of the requests served side by side
ConcurrentQueries ==
    { [defined |-> FALSE, text |-> <<>>],
      [defined |-> TRUE,  text |-> <<>>],
      [defined |-> TRUE,  text |-> <<"a">>],
      [defined |-> TRUE,  text |-> <<"0">>],
      [defined |-> TRUE,  text |-> <<"4">>],
      [defined |-> TRUE,  text |-> <<"1", "9">>] }

NoRequest ==
    [pc |-> "idle", query |-> [defined |-> FALSE, text |-> <<>>],
     status |-> 0, body |-> NoBody]

\* romanMap, num and result kept at module level: one activation for all
Frame_shared(r) == 1

\* romanMap is a const of the handler body, num and result are locals of
\* toRoman: every request has an activation of its own
Frame(r) == r

InitConcurrent ==
    /\ reqs = [r \in Requests |-> NoRequest]
    /\ frames = [r \in Requests |-> NoFrame]
    /\ pc = "serving"
    /\ query = [defined |-> FALSE, text |-> <<>>]
    /\ status = 0
    /\ body = NoBody
    /\ called = <<>>
    /\ responses = 0
    /\ arg = 0
    /\ ret = <<>>
    /\ srv = NoServer
    /\ metrics = NoMetrics
    /\ app = NoApp
    /\ inflight = <<>>

\* request r arrives
ConcReceive(r) ==
    /\ reqs[r].pc = "idle"
    /\ \E q \in ConcurrentQueries :
           reqs' = [reqs EXCEPT ![r].query = q, ![r].pc = "received"]
    /\ UNCHANGED <<app, inflight, srv, metrics, pc, query, status, body, called, responses, arg, ret, frames>>

\* the handler of r runs its checks: it answers 400, or calls toRoman
ConcValidate(r) ==
    /\ reqs[r].pc = "received"
    /\ LET reply == romannumeral(reqs[r].query) IN
         IF reply.called = <<>>
         THEN /\ reqs' = [reqs EXCEPT ![r].status = reply.status,
                                      ![r].body = reply.body,
                                      ![r].pc = "responded"]
              /\ UNCHANGED frames
         ELSE /\ reqs' = [reqs EXCEPT ![r].pc = "converting"]
              /\ frames' = [frames EXCEPT ![Frame(r)] = EnterToRoman(reply.called[1])]
    /\ UNCHANGED <<app, inflight, srv, metrics, pc, query, status, body, called, responses, arg, ret>>

\* one iteration of the while loop of r's toRoman
ConcAppend(r) ==
    /\ reqs[r].pc = "converting"
    /\ ~AtEnd(frames[Frame(r)])
    /\ WhileCond(frames[Frame(r)])
    /\ frames' = [frames EXCEPT ![Frame(r)] = AppendStep(frames[Frame(r)])]
    /\ UNCHANGED <<app, inflight, srv, metrics, pc, query, status, body, called, responses, arg, ret, reqs>>

\* r's toRoman moves to the next table entry
ConcNextEntry(r) ==
    /\ reqs[r].pc = "converting"
    /\ ~AtEnd(frames[Frame(r)])
    /\ ~WhileCond(frames[Frame(r)])
    /\ frames' = [frames EXCEPT ![Frame(r)] = NextEntryStep(frames[Frame(r)])]
    /\ UNCHANGED <<app, inflight, srv, metrics, pc, query, status, body, called, responses, arg, ret, reqs>>

\* r's toRoman returns and the handler answers 200
ConcReturn(r) ==
    /\ reqs[r].pc = "converting"
    /\ AtEnd(frames[Frame(r)])
    /\ frames' = [frames EXCEPT ![Frame(r)] = ReturnStep(frames[Frame(r)])]
    /\ reqs' = [reqs EXCEPT
                  ![r].status = 200,
                  ![r].body = [input |-> reqs[r].query.text,
                               output |-> frames[Frame(r)].result],
                  ![r].pc = "responded"]
    /\ UNCHANGED <<app, inflight, srv, metrics, pc, query, status, body, called, responses, arg, ret>>

NextConcurrent ==
    \E r \in Requests :
        \/ ConcReceive(r)
        \/ ConcValidate(r)
        \/ ConcAppend(r)
        \/ ConcNextEntry(r)
        \/ ConcReturn(r)

SpecConcurrent == InitConcurrent /\ [][NextConcurrent]_vars

----------------------------------------------------------------------------
(* The Express application: a request walks the stack of layers in the     *)
(* order of their registration.  A layer that throws hands the error to    *)
(* the error-handling layers (four parameters) that FOLLOW it in the       *)
(* stack; with none left, Express's final handler answers.                 *)

\* number of requests served in one run
MaxServed == 3

\* the layers in the order app.use / app.get register them
Stack ==
    <<"errorHandler", "cors", "metricsMiddleware", "health", "metrics",
      "romannumeral">>

Methods == {"GET", "OPTIONS"}

Paths == {"/health", "/metrics", "/romannumeral", "/nowhere"}

Statuses == {200, 400, 404, 500}

ErrorTypes == {"client_error", "server_error"}

\* label sets of http_requests_total and http_errors_total
RequestLabels == Methods \X Paths \X Statuses

ErrorLabels == Methods \X Paths \X Statuses \X ErrorTypes

ServerQueries ==
    { [defined |-> FALSE, text |-> <<>>],
      [defined |-> TRUE,  text |-> <<"0">>],
      [defined |-> TRUE,  text |-> <<"4", "2">>] }

IdleServer(n) ==
    [pc |-> "idle", method |-> "GET", path |-> "/nowhere",
     query |-> [defined |-> FALSE, text |-> <<>>],
     layer |-> 0, err |-> FALSE, raised |-> FALSE, listener |-> FALSE,
     status |-> 0, body |-> NoBody, by |-> "nobody", served |-> n]

\* the response ends: status, body and the layer that sent it
Respond(st, b, who) ==
    [srv EXCEPT !.pc = "responded", !.status = st, !.body = b, !.by = who]

\* next(): on to the following layer
PassOn == [srv EXCEPT !.layer = @ + 1]

\* a layer throws: Express calls next(err)
Throw == [srv EXCEPT !.layer = @ + 1, !.err = TRUE, !.raised = TRUE]

AtLayer(name) ==
    /\ srv.pc = "dispatch"
    /\ srv.layer <= Len(Stack)
    /\ Stack[srv.layer] = name

\* errorType with '>' in place of '>='
ErrorType_gt(st) == IF st > 500 THEN "server_error" ELSE "client_error"

\* const errorType = res.statusCode >= 500 ? 'server_error' : 'client_error'
ErrorType(st) == IF st >= 500 THEN "server_error" ELSE "client_error"

\* the 'finish' callback of metricsMiddleware
OnFinish(m, method, route, st) ==
    [requests |-> [m.requests EXCEPT ![<<method, route, st>>] = @ + 1],
     errors   |-> IF st >= 400
                  THEN [m.errors EXCEPT
                          ![<<method, route, st, ErrorType(st)>>] = @ + 1]
                  ELSE m.errors]

InitExpress ==
    /\ srv = IdleServer(0)
    /\ app = NoApp
    /\ inflight = <<>>
    /\ metrics = [requests |-> [l \in RequestLabels |-> 0],
                  errors   |-> [l \in ErrorLabels |-> 0]]
    /\ pc = "serving"
    /\ query = [defined |-> FALSE, text |-> <<>>]
    /\ status = 0
    /\ body = NoBody
    /\ called = <<>>
    /\ responses = 0
    /\ arg = 0
    /\ ret = <<>>
    /\ frames = <<>>
    /\ reqs = <<>>

notServer ==
    <<pc, query, status, body, called, responses, arg, ret, frames, reqs, app,
      inflight>>

\* a request arrives and enters the stack at its first layer
SrvReceive ==
    /\ srv.pc = "idle"
    /\ srv.served < MaxServed
    /\ \E m \in Methods, p \in Paths :
         \E q \in (IF p = "/romannumeral"
                   THEN ServerQueries
                   ELSE {[defined |-> FALSE, text |-> <<>>]}) :
            srv' = [srv EXCEPT !.pc = "dispatch", !.method = m, !.path = p,
                               !.query = q, !.layer = 1]
    /\ UNCHANGED <<metrics, notServer>>

\* app.use((err, req, res, next) => ...): called only with an error pending
ErrorHandler ==
    /\ AtLayer("errorHandler")
    /\ srv' = IF srv.err
              THEN Respond(500, ErrorBody("Internal server error"), "errorHandler")
              ELSE PassOn
    /\ UNCHANGED <<metrics, notServer>>

\* with an error pending the layers that are not error handlers are skipped
SkipOnError ==
    /\ srv.pc = "dispatch"
    /\ srv.layer <= Len(Stack)
    /\ Stack[srv.layer] # "errorHandler"
    /\ srv.err
    /\ srv' = PassOn
    /\ UNCHANGED <<metrics, notServer>>

\* cors(corsOptions): answers an OPTIONS request itself with
\* optionsSuccessStatus, passes every other request on
Cors ==
    /\ AtLayer("cors")
    /\ ~srv.err
    /\ srv' = IF srv.method = "OPTIONS"
              THEN Respond(200, NoBody, "cors")
              ELSE PassOn
    /\ UNCHANGED <<metrics, notServer>>

\* metricsMiddleware: res.on('finish', ...); next()
MetricsMiddleware ==
    /\ AtLayer("metricsMiddleware")
    /\ ~srv.err
    /\ srv' = [srv EXCEPT !.listener = TRUE, !.layer = @ + 1]
    /\ UNCHANGED <<metrics, notServer>>

\* app.get('/health')
HealthRoute ==
    /\ AtLayer("health")
    /\ ~srv.err
    /\ \/ /\ srv.method = "GET" /\ srv.path = "/health"
          /\ \/ srv' = Respond(200, [status |-> "healthy"], "health")
             \/ srv' = Throw
       \/ /\ ~(srv.method = "GET" /\ srv.path = "/health")
          /\ srv' = PassOn
    /\ UNCHANGED <<metrics, notServer>>

\* app.get('/metrics', metricsEndpoint): the metrics text, or 500 from its
\* catch branch
MetricsRoute ==
    /\ AtLayer("metrics")
    /\ ~srv.err
    /\ \/ /\ srv.method = "GET" /\ srv.path = "/metrics"
          /\ \/ srv' = Respond(200, [text |-> "metrics"], "metrics")
             \/ srv' = Respond(500, [text |-> "Error generating metrics"], "metrics")
       \/ /\ ~(srv.method = "GET" /\ srv.path = "/metrics")
          /\ srv' = PassOn
    /\ UNCHANGED <<metrics, notServer>>

\* app.get('/romannumeral'): the handler answers, or one of its calls
\* outside the try block throws
RomannumeralRoute ==
    /\ AtLayer("romannumeral")
    /\ ~srv.err
    /\ \/ /\ srv.method = "GET" /\ srv.path = "/romannumeral"
          /\ \/ LET reply == romannumeral(srv.query)
                IN  srv' = Respond(reply.status, reply.body, "romannumeral")
             \/ srv' = Throw
       \/ /\ ~(srv.method = "GET" /\ srv.path = "/romannumeral")
          /\ srv' = PassOn
    /\ UNCHANGED <<metrics, notServer>>

\* the stack is exhausted: Express's final handler answers 404, or 500 with
\* its own error page when an error is pending
FinalHandler ==
    /\ srv.pc = "dispatch"
    /\ srv.layer > Len(Stack)
    /\ srv' = IF srv.err
              THEN Respond(500, [html |-> "Internal Server Error"], "finalhandler")
              ELSE Respond(404, [html |-> "Not Found"], "finalhandler")
    /\ UNCHANGED <<metrics, notServer>>

\* the response has gone out: 'finish' fires and runs the listener
\* metricsMiddleware registered, if it did
SrvFinish ==
    /\ srv.pc = "responded"
    /\ metrics' = IF srv.listener
                  THEN OnFinish(metrics, srv.method, srv.path, srv.status)
                  ELSE metrics
    /\ srv' = IdleServer(srv.served + 1)
    /\ UNCHANGED notServer

NextExpress ==
    \/ SrvReceive
    \/ ErrorHandler
    \/ SkipOnError
    \/ Cors
    \/ MetricsMiddleware
    \/ HealthRoute
    \/ MetricsRoute
    \/ RomannumeralRoute
    \/ FinalHandler
    \/ SrvFinish

SpecExpress == InitExpress /\ [][NextExpress]_vars

----------------------------------------------------------------------------
(* The front end (App.tsx): the component's state, handleNumberChange,     *)
(* convertNumber and the Convert button.  The state is a record of the     *)
(* useState values number, roman, loading and error.  roman is a record    *)
(* telling where its text came from: the initial '', data.output, the      *)
(* text of an error response, or the message of the catch clause.          *)

\* longest text typed into the field
MaxFieldLen == 4

\* characters field texts are built from
FieldChars == {"0", "3", "4", "9", "a", "+", "&"}

RECURSIVE FieldTexts(_)
FieldTexts(n) ==
    IF n = 0 THEN {<<>>}
    ELSE LET shorter == FieldTexts(n - 1)
         IN  shorter \cup {t \o <<c>> : t \in shorter, c \in FieldChars}

\* field texts of a session at the page
SessionTexts ==
    { <<>>, <<"0">>, <<"1">>, <<"4", "2">>, <<"0", "4", "2">>,
      <<"3", "9", "9", "9">>, <<"4", "0", "0", "0">>, <<"4", "a">>,
      <<"a">>, <<" ", "4">> }

NoRoman == [kind |-> "initial", output |-> <<>>, body |-> NoBody, text |-> ""]

InitialApp == [number |-> <<>>, roman |-> NoRoman, loading |-> FALSE, error |-> ""]

\* /^\d+$/.test(value)
DigitsOnly(value) ==
    value # <<>> /\ \A i \in 1..Len(value) : IsDigit(value[i])

\* handleNumberChange with the lower limit off by one
handleNumberChange_offByOne(a, value) ==
    LET num == parseInt(value)
    IN  [a EXCEPT
            !.number = value,
            !.error  = IF value = <<>> THEN ""
                       ELSE IF ~DigitsOnly(value) THEN "Please enter only digits"
                       ELSE IF ~isNaN(num) /\ (num.value < 0 \/ num.value > 3999)
                       THEN "Please enter a number between 1 and 3999"
                       ELSE ""]

handleNumberChange(a, value) ==
    LET num == parseInt(value)
    IN  [a EXCEPT
            !.number = value,
            !.error  = IF value = <<>> THEN ""
                       ELSE IF ~DigitsOnly(value) THEN "Please enter only digits"
                       ELSE IF ~isNaN(num) /\ (num.value < 1 \/ num.value > 3999)
                       THEN "Please enter a number between 1 and 3999"
                       ELSE ""]

\* the guard of convertNumber: false where it returns at once
ConvertSends(a) == ~(a.number = <<>> \/ a.error # "")

\* req.query.query for the URL `${backendUrl}/romannumeral?query=${number}`:
\* the URL's query ends at a '#', the parameter's value at a '&', and a '+'
\* in the value is decoded as a space
RECURSIVE ParameterValue(_)
ParameterValue(number) ==
    IF number = <<>> \/ Head(number) \in {"&", "#"} THEN <<>>
    ELSE <<IF Head(number) = "+" THEN " " ELSE Head(number)>>
             \o ParameterValue(Tail(number))

RequestQuery(number) == [defined |-> TRUE, text |-> ParameterValue(number)]

NoReply == Reply(0, NoBody, <<>>)

\* a request whose fetch has not resolved yet
Request(number) == [query |-> RequestQuery(number), reply |-> NoReply]

\* response.ok
Ok(reply) == reply.status >= 200 /\ reply.status <= 299

\* status codes of error responses that do not come from the handler
ErrorStatuses == {404, 500}

\* convertNumber from setLoading(true) to the fetch
Sending(a) == [a EXCEPT !.loading = TRUE]

\* convertNumber after the response's body was read, finally clause included
Settled(a, reply) ==
    [a EXCEPT
        !.roman   = IF ~Ok(reply)
                    THEN [kind |-> "errorText", output |-> <<>>,
                          body |-> reply.body, text |-> ""]
                    ELSE [kind |-> "output", output |-> reply.body.output,
                          body |-> NoBody, text |-> ""],
        !.loading = FALSE]

\* convertNumber through its catch clause, finally clause included
Caught(a) ==
    [a EXCEPT
        !.roman   = [kind |-> "catch", output |-> <<>>, body |-> NoBody,
                     text |-> "Error contacting server."],
        !.loading = FALSE]

\* isDisabled without loading
isDisabled_noLoading(a) == a.number = <<>> \/ a.error # ""

\* the Button's isDisabled
isDisabled(a) == a.loading \/ a.number = <<>> \/ a.error # ""

Without(seq, i) == SubSeq(seq, 1, i - 1) \o SubSeq(seq, i + 1, Len(seq))

notApp ==
    <<query, status, body, called, responses, arg, ret, frames, reqs, srv,
      metrics>>

----------------------------------------------------------------------------
(* One field text, one call of convertNumber and the handler's answer to   *)
(* the request it sends.  pc is the position: "field" before the text is   *)
(* entered, "changed" after handleNumberChange, "returned" where           *)
(* convertNumber returned without a request, "fetching" at await fetch,    *)
(* "answered" once the handler responded, "settled" after finally.         *)

InitAgree ==
    /\ pc = "field"
    /\ query = [defined |-> FALSE, text |-> <<>>]
    /\ status = 0
    /\ body = NoBody
    /\ called = <<>>
    /\ responses = 0
    /\ arg = 0
    /\ ret = <<>>
    /\ frames = <<>>
    /\ reqs = <<>>
    /\ srv = NoServer
    /\ metrics = NoMetrics
    /\ app = InitialApp
    /\ inflight = <<>>

AgreeChange ==
    /\ pc = "field"
    /\ \E value \in FieldTexts(MaxFieldLen) :
           app' = handleNumberChange(app, value)
    /\ pc' = "changed"
    /\ UNCHANGED <<inflight, notApp>>

AgreeConvert ==
    /\ pc = "changed"
    /\ IF ConvertSends(app)
       THEN /\ app' = Sending(app)
            /\ inflight' = Append(inflight, Request(app.number))
            /\ pc' = "fetching"
       ELSE /\ pc' = "returned"
            /\ UNCHANGED <<app, inflight>>
    /\ UNCHANGED notApp

AgreeAnswer ==
    /\ pc = "fetching"
    /\ inflight' = [inflight EXCEPT ![1].reply = romannumeral(inflight[1].query)]
    /\ pc' = "answered"
    /\ UNCHANGED <<app, notApp>>

AgreeSettle ==
    /\ pc = "answered"
    /\ app' = Settled(app, inflight[1].reply)
    /\ inflight' = Without(inflight, 1)
    /\ pc' = "settled"
    /\ UNCHANGED notApp

NextAgree ==
    \/ AgreeChange
    \/ AgreeConvert
    \/ AgreeAnswer
    \/ AgreeSettle

SpecAgree == InitAgree /\ [][NextAgree]_vars

----------------------------------------------------------------------------
(* A session at the page: the field is edited, the Convert button is       *)
(* pressed where it is enabled, and each request settles in its own time:  *)
(* the fetch resolves with the handler's response or with an error         *)
(* response from elsewhere, or rejects; then the body is read.             *)

InitFrontend ==
    /\ pc = "page"
    /\ query = [defined |-> FALSE, text |-> <<>>]
    /\ status = 0
    /\ body = NoBody
    /\ called = <<>>
    /\ responses = 0
    /\ arg = 0
    /\ ret = <<>>
    /\ frames = <<>>
    /\ reqs = <<>>
    /\ srv = NoServer
    /\ metrics = NoMetrics
    /\ app = InitialApp
    /\ inflight = <<>>

Change ==
    /\ \E value \in SessionTexts : app' = handleNumberChange(app, value)
    /\ UNCHANGED <<pc, inflight, notApp>>

Press ==
    /\ ~isDisabled(app)
    /\ IF ConvertSends(app)
       THEN /\ app' = Sending(app)
            /\ inflight' = Append(inflight, Request(app.number))
       ELSE UNCHANGED <<app, inflight>>
    /\ UNCHANGED <<pc, notApp>>

FetchResolves ==
    /\ \E i \in 1..Len(inflight) :
           /\ inflight[i].reply = NoReply
           /\ \E reply \in {romannumeral(inflight[i].query)}
                              \cup {Reply(st, NoBody, <<>>) : st \in ErrorStatuses} :
                  inflight' = [inflight EXCEPT ![i].reply = reply]
    /\ UNCHANGED <<pc, app, notApp>>

FetchRejects ==
    /\ \E i \in 1..Len(inflight) :
           /\ inflight[i].reply = NoReply
           /\ inflight' = Without(inflight, i)
    /\ app' = Caught(app)
    /\ UNCHANGED <<pc, notApp>>

\* await response.text() or await response.json(): the body is read, or
\* reading it throws and the catch clause runs
BodyRead ==
    /\ \E i \in 1..Len(inflight) :
           /\ inflight[i].reply # NoReply
           /\ app' \in {Settled(app, inflight[i].reply), Caught(app)}
           /\ inflight' = Without(inflight, i)
    /\ UNCHANGED <<pc, notApp>>

NextFrontend ==
    \/ Change
    \/ Press
    \/ FetchResolves
    \/ FetchRejects
    \/ BodyRead

SpecFrontend == InitFrontend /\ [][NextFrontend]_vars

----------------------------------------------------------------------------
(* Properties of toRoman, checked under SpecToRoman                        *)

RomanChars == {"I", "V", "X", "L", "C", "D", "M"}

InRange(n) == n >= MinNum /\ n <= MaxNum

Returned(n) == pc = "returned" /\ arg = n

\* C1: for every integer n in [1, 3999], toRoman(n) is a non-empty string
\* whose characters are all among I, V, X, L, C, D, M.
C1_RomanAlphabet ==
    (pc = "returned" /\ InRange(arg)) =>
        /\ ret # <<>>
        /\ \A i \in 1..Len(ret) : ret[i] \in RomanChars

C1_Witness == Returned(1994) /\ ret = <<"M", "C", "M", "X", "C", "I", "V">>

\* Standard decoding of a Roman numeral: each symbol's value is added, or
\* subtracted when the symbol stands before a larger one.
SymbolValue(c) ==
    CASE c = "I" -> 1
      [] c = "V" -> 5
      [] c = "X" -> 10
      [] c = "L" -> 50
      [] c = "C" -> 100
      [] c = "D" -> 500
      [] c = "M" -> 1000

RECURSIVE Decode(_)
Decode(s) ==
    IF s = <<>> THEN 0
    ELSE IF Len(s) > 1 /\ SymbolValue(s[1]) < SymbolValue(s[2])
         THEN Decode(Tail(s)) - SymbolValue(s[1])
         ELSE Decode(Tail(s)) + SymbolValue(s[1])

\* C2: round trip: for every integer n in [1, 3999], decoding toRoman(n)
\* by the standard rules gives n again.
C2_RoundTrip ==
    (pc = "returned" /\ InRange(arg)) => Decode(ret) = arg

C2_Witness == Returned(444) /\ Decode(ret) = 444 /\ Len(ret) = 6

\* toRoman tabulated over [1, 3999]
RomanOf == [n \in MinNum..MaxNum |-> toRoman(n)]

\* C3: toRoman is injective on [1, 3999]: no smaller integer of the range is
\* converted to the string returned for n (so no two integers share a string).
C3_Injective ==
    (pc = "returned" /\ InRange(arg)) =>
        \A n2 \in MinNum..(arg - 1) : RomanOf[n2] # ret

C3_Witness == Returned(6) /\ ret = <<"V", "I">> /\ RomanOf[4] # ret

\* C4: the stated boundary values: 1 -> I, 4 -> IV, 9 -> IX, 40 -> XL,
\* 90 -> XC, 400 -> CD, 900 -> CM, 1000 -> M, 3999 -> MMMCMXCIX, 42 -> XLII.
C4_BoundaryValues ==
    pc = "returned" =>
        /\ arg = 1    => ret = <<"I">>
        /\ arg = 4    => ret = <<"I", "V">>
        /\ arg = 9    => ret = <<"I", "X">>
        /\ arg = 40   => ret = <<"X", "L">>
        /\ arg = 90   => ret = <<"X", "C">>
        /\ arg = 400  => ret = <<"C", "D">>
        /\ arg = 900  => ret = <<"C", "M">>
        /\ arg = 1000 => ret = <<"M">>
        /\ arg = 3999 => ret = <<"M", "M", "M", "C", "M", "X", "C", "I", "X">>
        /\ arg = 42   => ret = <<"X", "L", "I", "I">>

C4_Witness == Returned(3999) /\ Len(ret) = 9

\* C5 as stated: for every integer n in [1, 3999], toRoman(n) is at most
\* 9 characters long.
C5_LengthAtMost9 ==
    (pc = "returned" /\ InRange(arg)) => Len(ret) <= 9

\* C5 as amended: for every integer n in [1, 3999], toRoman(n) is at most
\* 15 characters long (the length of toRoman(3888)).
C5_LengthAtMost15 ==
    (pc = "returned" /\ InRange(arg)) => Len(ret) <= 15

C5_Witness == Returned(3888) /\ Len(ret) = 15

\* C6: toRoman invoked with 0 or with 4000 signals OutOfRange and does not
\* return a string.
C6_OutOfRangeSignalled ==
    (pc = "returned" /\ arg \in {MinNum - 1, MaxNum + 1}) =>
        ret \notin Seq(RomanChars)

----------------------------------------------------------------------------
(* Properties of the GET /romannumeral handler, checked under Spec         *)

\* the handler has answered a request whose query parameter is present and
\* not empty
Answered == pc = "responded" /\ query.defined /\ query.text # <<>>

RangeMessage == "Number must be between 1 and 3999"

FormatMessage == "Invalid number format"

\* C7: a query that parses to an integer outside [1, 3999] is answered with
\* HTTP 400 'Number must be between 1 and 3999' and toRoman is not invoked;
\* toRoman is only ever invoked with an integer in [1, 3999].
C7_OutOfRangeRejected ==
    /\ (Answered /\ ~isNaN(parseInt(query.text))
                 /\ ~InRange(parseInt(query.text).value)) =>
           /\ status = 400
           /\ body = ErrorBody(RangeMessage)
           /\ called = <<>>
    /\ \A i \in 1..Len(called) : called[i] \in MinNum..MaxNum

C7_Witness ==
    /\ pc = "responded"
    /\ query.text = <<"4", "0", "0", "0">>
    /\ status = 400
    /\ body = ErrorBody(RangeMessage)

\* C8: a non-empty query that does not parse as a base-10 integer (parseInt
\* gives NaN) is answered with HTTP 400 'Invalid number format' and toRoman
\* is not invoked.
C8_InvalidFormatRejected ==
    (Answered /\ isNaN(parseInt(query.text))) =>
        /\ status = 400
        /\ body = ErrorBody(FormatMessage)
        /\ called = <<>>

C8_Witness ==
    /\ pc = "responded"
    /\ query.text = <<"a", "1">>
    /\ status = 400
    /\ body = ErrorBody(FormatMessage)

\* the decimal text of an integer: an optional minus sign, then digits only
IsDecimalText(t) ==
    LET digits == IF t # <<>> /\ Head(t) = "-" THEN Tail(t) ELSE t
    IN  /\ digits # <<>>
        /\ \A i \in 1..Len(digits) : IsDigit(digits[i])

\* C9: every query that is not the decimal text of an integer ("12abc",
\* "3.7", "42 ") is answered with HTTP 400 and never reaches toRoman.
C9_NonIntegerRejected ==
    (Answered /\ ~IsDecimalText(query.text)) =>
        /\ status = 400
        /\ called = <<>>

\* C10: a request that passes validation is answered with HTTP 200 and a
\* body of exactly the two fields input, the query text as received, and
\* output, toRoman of the parsed integer; query=42 gives input "42" and
\* output "XLII".
C10_SuccessBody ==
    /\ (Answered /\ ~isNaN(parseInt(query.text))
                 /\ InRange(parseInt(query.text).value)) =>
           /\ status = 200
           /\ DOMAIN body = {"input", "output"}
           /\ body.input = query.text
           /\ body.output = toRoman(parseInt(query.text).value)
           /\ called = <<parseInt(query.text).value>>
    /\ (Answered /\ query.text = <<"4", "2">>) =>
           body = [input |-> <<"4", "2">>, output |-> <<"X", "L", "I", "I">>]

C10_Witness ==
    /\ pc = "responded"
    /\ status = 200
    /\ query.text = <<"0", "4", "2">>
    /\ body = [input |-> <<"0", "4", "2">>, output |-> <<"X", "L", "I", "I">>]

----------------------------------------------------------------------------
(* Further properties of toRoman (SpecToRoman) and of the handler (Spec)   *)

\* C16: toRoman invoked unchecked with 0 returns the empty string: nothing
\* is appended and no error is raised.
C16_ZeroGivesEmpty ==
    Returned(0) => (ret = <<>> /\ ~toRomanThrows(0))

C16_Witness == Returned(0) /\ Len(ret) = 0

RequiredMessage == "Query parameter is required"

Missing == ~query.defined \/ query.text = <<>>

\* C17: a missing or empty query parameter is answered with HTTP 400
\* 'Query parameter is required'; the checks run in the order missing,
\* invalid format, out of range, conversion, and the first one that fails
\* decides the response.
C17_CheckOrder ==
    pc = "responded" =>
        /\ Missing =>
              (status = 400 /\ body = ErrorBody(RequiredMessage) /\ called = <<>>)
        /\ body = ErrorBody(RequiredMessage) => Missing
        /\ body = ErrorBody(FormatMessage) =>
              (~Missing /\ isNaN(parseInt(query.text)))
        /\ body = ErrorBody(RangeMessage) =>
              (~Missing /\ ~isNaN(parseInt(query.text))
                        /\ ~InRange(parseInt(query.text).value))
        /\ status = 200 =>
              (~Missing /\ ~isNaN(parseInt(query.text))
                        /\ InRange(parseInt(query.text).value))

C17_Witness ==
    /\ pc = "responded"
    /\ query = [defined |-> TRUE, text |-> <<>>]
    /\ status = 400
    /\ body = ErrorBody(RequiredMessage)

----------------------------------------------------------------------------
(* Properties of the loop of toRoman, checked under SpecLoop               *)

RECURSIVE Occurrences(_, _)
Occurrences(seq, x) ==
    IF seq = <<>> THEN 0
    ELSE (IF Head(seq) = x THEN 1 ELSE 0) + Occurrences(Tail(seq), x)

\* C12: for every integer n in [1, 3999], no table entry is appended more
\* than 3 times during toRoman(n), and no character stands four times in a
\* row in the result.
C12_AtMostThreeRepeats ==
    InRange(frames[1].arg) =>
        /\ \A e \in 1..Len(frames[1].romanMap) :
               Occurrences(frames[1].appended, e) <= 3
        /\ \A k \in 1..(Len(frames[1].result) - 3) :
               ~(/\ frames[1].result[k] = frames[1].result[k + 1]
                 /\ frames[1].result[k] = frames[1].result[k + 2]
                 /\ frames[1].result[k] = frames[1].result[k + 3])

C12_Witness ==
    /\ frames[1].pc = "returned"
    /\ frames[1].arg = 3888
    /\ Occurrences(frames[1].appended, 1) = 3
    /\ Occurrences(frames[1].appended, 13) = 3

\* C13: romanMap holds exactly the 13 pairs 1000=M, 900=CM, 500=D, 400=CD,
\* 100=C, 90=XC, 50=L, 40=XL, 10=X, 9=IX, 5=V, 4=IV, 1=I in strictly
\* descending order of value, before, during and after every conversion.
C13_TableFixed ==
    /\ frames[1].romanMap =
         << [value |-> 1000, numeral |-> <<"M">>],
            [value |-> 900,  numeral |-> <<"C", "M">>],
            [value |-> 500,  numeral |-> <<"D">>],
            [value |-> 400,  numeral |-> <<"C", "D">>],
            [value |-> 100,  numeral |-> <<"C">>],
            [value |-> 90,   numeral |-> <<"X", "C">>],
            [value |-> 50,   numeral |-> <<"L">>],
            [value |-> 40,   numeral |-> <<"X", "L">>],
            [value |-> 10,   numeral |-> <<"X">>],
            [value |-> 9,    numeral |-> <<"I", "X">>],
            [value |-> 5,    numeral |-> <<"V">>],
            [value |-> 4,    numeral |-> <<"I", "V">>],
            [value |-> 1,    numeral |-> <<"I">>] >>
    /\ Len(frames[1].romanMap) = 13
    /\ \A e \in 1..(Len(frames[1].romanMap) - 1) :
           frames[1].romanMap[e].value > frames[1].romanMap[e + 1].value

C13_Witness ==
    /\ frames[1].pc = "returned"
    /\ frames[1].arg = 1994
    /\ frames[1].appended = <<1, 2, 6, 12>>
    /\ Len(frames[1].romanMap) = 13

RECURSIVE AppendedValue(_, _)
AppendedValue(table, appended) ==
    IF appended = <<>> THEN 0
    ELSE table[Head(appended)].value + AppendedValue(table, Tail(appended))

\* C14: at every step of toRoman(n), n in [1, 3999], the values of the
\* entries appended so far plus the remaining quantity make n, the remaining
\* quantity is not negative, and it is 0 when the walk over the table ends.
C14_GreedyInvariant ==
    InRange(frames[1].arg) =>
        /\ AppendedValue(frames[1].romanMap, frames[1].appended) + frames[1].num
               = frames[1].arg
        /\ frames[1].num >= 0
        /\ AtEnd(frames[1]) => frames[1].num = 0

C14_Witness ==
    /\ frames[1].arg = 1994
    /\ frames[1].pc = "loop"
    /\ frames[1].appended = <<1, 2, 6>>
    /\ frames[1].num = 4

\* C15: toRoman terminates for every integer input, 0, negative values and
\* values above 3999 included: it returns, every iteration of the while
\* loop makes the remaining quantity strictly smaller, and the for loop only
\* moves forward through the table.
C15_Terminates ==
    /\ <>(pc = "returned")
    /\ [][\/ /\ frames'[1].num < frames[1].num
             /\ frames'[1].i = frames[1].i
          \/ /\ frames'[1].num = frames[1].num
             /\ frames'[1].i = frames[1].i + 1
          \/ /\ frames'[1].pc = "returned"
             /\ frames'[1].num = frames[1].num
             /\ frames'[1].i = frames[1].i]_vars

C15_Witness ==
    /\ pc = "returned"
    /\ arg = -1
    /\ ret = <<>>
    /\ frames[1].i = 14

----------------------------------------------------------------------------
(* Requests served side by side, checked under SpecConcurrent              *)

\* C11: conversions are independent: in every interleaving each response is
\* the one its request gets when served alone, and each conversion works on
\* the number of its own request throughout.
C11_Independent ==
    \A r \in Requests :
         /\ reqs[r].pc = "responded" =>
               /\ reqs[r].status = romannumeral(reqs[r].query).status
               /\ reqs[r].body = romannumeral(reqs[r].query).body
         /\ reqs[r].pc = "converting" =>
               frames[Frame(r)].arg = parseInt(reqs[r].query.text).value

C11_Witness ==
    /\ reqs[1].pc = "responded"
    /\ reqs[1].body = [input |-> <<"4">>, output |-> <<"I", "V">>]
    /\ reqs[2].pc = "converting"
    /\ reqs[2].query.text = <<"1", "9">>
    /\ frames[2].result = <<"X">>
    /\ frames[1].pc = "returned"

----------------------------------------------------------------------------
(* Properties of the Express application, checked under SpecExpress        *)

\* C19: an error raised while a request is served, also one raised in a
\* route handler registered after the global error-handling middleware, is
\* caught by that middleware and answered with HTTP 500
\* {error: 'Internal server error'}.
C19_ErrorsCaught ==
    (srv.pc = "responded" /\ srv.raised) =>
        /\ srv.by = "errorHandler"
        /\ srv.status = 500
        /\ srv.body = ErrorBody("Internal server error")

\* the response in srv is finishing in this step
Finishing == srv.pc = "responded" /\ srv'.pc = "idle"

\* what the counters must be after a response with these labels finished
CountedOnce ==
    /\ \A l \in RequestLabels :
         metrics'.requests[l] = metrics.requests[l]
             + (IF l = <<srv.method, srv.path, srv.status>> THEN 1 ELSE 0)
    /\ \A l \in ErrorLabels :
         metrics'.errors[l] = metrics.errors[l]
             + (IF /\ srv.status >= 400
                   /\ l = <<srv.method, srv.path, srv.status,
                            IF srv.status >= 500 THEN "server_error"
                                                 ELSE "client_error">>
                THEN 1 ELSE 0)

\* C20 as stated: for every response that finishes, http_requests_total is
\* incremented exactly once with the request's method, route and status
\* code, and http_errors_total exactly once if and only if the status code
\* is >= 400, labelled 'server_error' from 500 on and 'client_error' below.
C20_EveryResponseCounted ==
    [][IF Finishing THEN CountedOnce ELSE metrics' = metrics]_vars

\* C20 as amended: the same for every response to a request that reached
\* metricsMiddleware, that is every request but an OPTIONS request, which
\* cors answers itself before metricsMiddleware runs; that response changes
\* no counter.
C20_PassedResponsesCounted ==
    [][IF Finishing
       THEN /\ srv.listener <=> srv.method # "OPTIONS"
            /\ IF srv.method # "OPTIONS" THEN CountedOnce ELSE metrics' = metrics
       ELSE metrics' = metrics]_vars

C20_Witness ==
    /\ srv.pc = "idle"
    /\ srv.served = 2
    /\ metrics.requests[<<"GET", "/metrics", 500>>] = 1
    /\ metrics.errors[<<"GET", "/metrics", 500, "server_error">>] = 1
    /\ metrics.requests[<<"GET", "/romannumeral", 400>>] = 1
    /\ metrics.errors[<<"GET", "/romannumeral", 400, "client_error">>] = 1

----------------------------------------------------------------------------
(* Front end and back end, checked under SpecAgree and SpecFrontend        *)

\* the decimal numerals of the integers from 1 to 3999
DecimalTexts == {ToDecimal(n) : n \in MinNum..MaxNum}

RECURSIVE StripZeros(_)
StripZeros(t) ==
    IF t # <<>> /\ Head(t) = "0" THEN StripZeros(Tail(t)) ELSE t

\* digits only, with a value from 1 to 3999
AcceptedText(t) == StripZeros(t) \in DecimalTexts

\* C21: handleNumberChange leaves the error empty on a non-empty text
\* exactly if the text is digits only with a value in [1, 3999]; for every
\* such text convertNumber sends a request, and the /romannumeral handler
\* answers that request with HTTP 200; where the field is empty or an error
\* is set, convertNumber returns without sending a request.
C21_FrontEndBackEndAgree ==
    /\ pc = "changed" =>
           ((app.number # <<>> /\ app.error = "") <=> AcceptedText(app.number))
    /\ pc = "fetching" =>
           /\ AcceptedText(app.number)
           /\ Len(inflight) = 1
    /\ pc = "answered" =>
           /\ AcceptedText(app.number)
           /\ inflight[1].reply.status = 200
    /\ pc = "returned" =>
           /\ app.number = <<>> \/ app.error # ""
           /\ inflight = <<>>
           /\ ~app.loading

C21_Witness ==
    /\ pc = "answered"
    /\ app.number = <<"3", "9", "9", "9">>
    /\ app.error = ""
    /\ inflight[1].query.text = <<"3", "9", "9", "9">>
    /\ inflight[1].reply.status = 200
    /\ inflight[1].reply.body.output = <<"M", "M", "M", "C", "M", "X", "C", "I", "X">>

\* C22: loading is true exactly while a request is in flight; the Convert
\* button is disabled while loading is true and at most one request is in
\* flight; the step that sends a request sets loading, and every step that
\* ends one (the body of a 200 or of an error response read, the fetch
\* rejected) sets it back to false.
C22_LoadingWhileInFlight ==
    /\ [](/\ app.loading <=> inflight # <<>>
          /\ Len(inflight) <= 1
          /\ app.loading => isDisabled(app))
    /\ [][/\ Len(inflight') > Len(inflight) => ~app.loading /\ app'.loading
          /\ Len(inflight') < Len(inflight) =>
                 /\ app.loading /\ ~app'.loading
                 /\ app'.roman.kind \in {"output", "errorText", "catch"}]_vars

C22_Witness ==
    /\ app.loading
    /\ Len(inflight) = 1
    /\ inflight[1].query.text = <<"4", "2">>
    /\ inflight[1].reply.status = 500
    /\ app.number = <<"4", "a">>
    /\ app.error = "Please enter only digits"
    /\ app.roman.kind = "catch"

====
